---------------------------- MODULE Spec2Model ----------------------------
(***************************************************************************)
(* A model of the two scripts of the repository:                           *)
(*   ComplexWebScrapper.py  fetch / scrape_all / expensive_computation /   *)
(*                          run_computations                               *)
(*   weight_mae.py          update_weights_MAE                             *)
(* Each script part has its own specification over the shared variables:   *)
(*   SpecFetch    one fetch coroutine, any retry budget, with a clock      *)
(*   SpecScrape   scrape_all over a list of URLs                           *)
(*   SpecCompute  the lru_cache around expensive_computation               *)
(*   SpecMAE      update_weights_MAE                                       *)
(***************************************************************************)
EXTENDS Integers, Sequences, FiniteSets, Bags, TLC

VARIABLES
    tasks,      \* the fetch coroutines: a sequence of task records
    clock,      \* seconds elapsed since the fetch call (SpecFetch)
    urls,       \* scrape_all: the argument
    session,    \* scrape_all: "none", "open" or "closed"
    spc,        \* scrape_all: "idle", "gather", "returned"
    scraped,    \* scrape_all: the returned dict, or None
    finished,   \* scrape_all: the task indices in their order of completion
    cache,      \* lru_cache: the links [key, result], oldest first
    tick,       \* lru_cache: how many hits and stores have happened
    used,       \* lru_cache: for each key, the tick of its last hit or store
    evicted,    \* lru_cache: the keys evicted so far
    nfill,      \* how many direct calls of expensive_computation were made
    numbers,    \* run_computations: the argument of the running call
    jobs,       \* run_computations: the executor's job of each position
    rpc,        \* run_computations: "idle" or "map"
    computed,   \* run_computations: the dict returned last, or None
    history,    \* run_computations: the calls that returned, in order
    computation, \* expensive_computation's body over the inputs tried
    args,       \* update_weights_MAE: the caller's m, b, X, Y, learning_rate
    frame,      \* update_weights_MAE: the locals and position of the call
    returns,    \* update_weights_MAE: how the earlier calls ended
    mpc,        \* main: "none", "start", "await", "printed", "raised", ...
    printed     \* main: the two dicts it printed, or None

fvars == <<tasks, clock>>
svars == <<urls, session, spc, scraped, finished>>
cvars == <<cache, tick, used, evicted, nfill, numbers, jobs, rpc, computed,
          history, computation>>
mvars == <<args, frame, returns>>
avars == <<mpc, printed>>
vars == <<fvars, svars, cvars, mvars, avars>>

\* Python values: None, and a str as its sequence of tokens.
None == [type |-> "NoneType"]
Str(tokens) == [type |-> "str", s |-> tokens]

\* The parts of the state a specification does not use.
NoFetch == tasks = <<>> /\ clock = 0
NoScrape ==
    /\ urls = <<>> /\ session = "none" /\ spc = "idle" /\ scraped = None
    /\ finished = <<>>
EmptyCache ==
    /\ cache = <<>> /\ tick = 0 /\ used = <<>> /\ evicted = {} /\ nfill = 0
    /\ numbers = <<>> /\ jobs = <<>> /\ rpc = "idle" /\ computed = None
    /\ history = <<>>
NoCompute == EmptyCache /\ computation = <<>>
NoMAE == args = None /\ frame = None /\ returns = <<>>
NoMain == mpc = "none" /\ printed = None

(***************************************************************************)
(* Bounds and program constants                                            *)
(***************************************************************************)
MaxRetries == 3         \* largest retries argument tried in SpecFetch
MaxUrls == 2            \* longest urls list tried in SpecScrape
DefaultRetries == 3     \* fetch(..., retries: int = 3)
Timeout == 5            \* session.get(url, timeout=5)

Urls == {"u1", "u2"}

\* How one GET attempt can end.  "ok": a 2xx status and the body was read.
\* "3xx": a final status below 400 that is not 2xx (a 304, a 3xx without a
\* Location to follow) and the body was read.  The others raise inside the
\* try block: "status" (a status >= 400) from raise_for_status(), "timeout"
\* and "conn" (connection / DNS) from session.get, "read" from
\* response.text().
FailKinds == {"status", "timeout", "conn", "read"}
Outcomes == {"ok", "3xx"} \cup FailKinds

\* response.raise_for_status() raises for a status of 400 and above only,
\* so the try block raises for the outcomes below and returns the body for
\* the others.
RaisesForStatus(o) == o = "status"
Raises(o) == o \in {"timeout", "conn", "read"} \/ RaisesForStatus(o)
StatusClass(o) == IF o = "ok" THEN "2xx" ELSE "3xx"

\* The exception object raised by attempt k, and the body read by attempt k.
Exc(kind, k) == [exc |-> kind, at |-> k]
Body(url, k, status) ==
    Str(<<[body |-> url, at |-> k, status |-> status]>>)

\* `except Exception`: ClientResponseError, asyncio.TimeoutError,
\* ClientConnectorError and ClientPayloadError all derive from Exception.
IsException(kind) == kind \in {"status", "timeout", "conn", "read"}

\* f"Failed to fetch {url}: {e}" as a sequence of tokens.
FailedToFetch(url, e) == Str(<<"Failed to fetch ", url, ": ", e>>)

(***************************************************************************)
(* fetch: one coroutine.  pc: "start" (created, not yet run), "get" (awaits*)
(* the GET of attempt `attempt`), "sleep" (awaits asyncio.sleep), "done"   *)
(* (returned `result`), "raised" (ended with exception `e`).               *)
(* gets, oks, oks3xx, fails and sleeps record the GET attempts issued,     *)
(* those whose body was returned (with a 2xx status, with another status   *)
(* below 400), those that raised, and the sleeps started (in seconds).     *)
(***************************************************************************)
NewTask(url, retries) ==
    [url |-> url, retries |-> retries, attempt |-> 0, pc |-> "start",
     e |-> None, result |-> None, gets |-> 0, oks |-> 0, oks3xx |-> 0,
     fails |-> 0, sleeps |-> <<>>]

\* The head of `for attempt in range(retries)` for the value k: issue the
\* GET of attempt k, or, with the range exhausted, fall off the end of the
\* function (return None).
fetch_loop(t, k) ==
    IF k < t.retries
    THEN [t EXCEPT !.pc = "get", !.attempt = k, !.e = None, !.gets = @ + 1]
    ELSE [t EXCEPT !.pc = "done", !.e = None, !.result = None]

\* The coroutine's first step.
fetch_start(t) == fetch_loop(t, 0)

\* The except branch of attempt t.attempt, with e the exception caught.
fetch_except_sleeps_last(t, e) ==
    IF t.attempt < t.retries
    THEN [t EXCEPT !.pc = "sleep", !.e = e,
                   !.sleeps = Append(@, 2 ^ t.attempt)]
    ELSE [t EXCEPT !.pc = "done", !.e = e,
                   !.result = FailedToFetch(t.url, e)]

fetch_except_linear(t, e) ==
    IF t.attempt < t.retries - 1
    THEN [t EXCEPT !.pc = "sleep", !.e = e,
                   !.sleeps = Append(@, 2 * t.attempt)]
    ELSE [t EXCEPT !.pc = "done", !.e = e,
                   !.result = FailedToFetch(t.url, e)]

fetch_except(t, e) ==
    IF t.attempt < t.retries - 1
    THEN [t EXCEPT !.pc = "sleep", !.e = e,
                   !.sleeps = Append(@, 2 ^ t.attempt)]
    ELSE [t EXCEPT !.pc = "done", !.e = e,
                   !.result = FailedToFetch(t.url, e)]

\* The body of attempt t.attempt was read and is returned.
fetch_return(t, o) ==
    [t EXCEPT !.pc = "done",
              !.oks = IF o = "ok" THEN @ + 1 ELSE @,
              !.oks3xx = IF o = "ok" THEN @ ELSE @ + 1,
              !.result = Body(t.url, t.attempt, StatusClass(o))]

\* The try block of attempt t.attempt when the GET ends with outcome o.
fetch_try_no_return(t, o) ==
    IF ~Raises(o)
    THEN fetch_loop([fetch_return(t, o) EXCEPT !.pc = "get"], t.attempt + 1)
    ELSE IF IsException(o)
    THEN fetch_except([t EXCEPT !.fails = @ + 1], Exc(o, t.attempt))
    ELSE [t EXCEPT !.pc = "raised", !.fails = @ + 1, !.e = Exc(o, t.attempt)]

fetch_try_client_errors(t, o) ==
    IF ~Raises(o)
    THEN fetch_return(t, o)
    ELSE IF o \in {"status", "conn", "read"}
    THEN fetch_except([t EXCEPT !.fails = @ + 1], Exc(o, t.attempt))
    ELSE [t EXCEPT !.pc = "raised", !.fails = @ + 1, !.e = Exc(o, t.attempt)]

fetch_try(t, o) ==
    IF ~Raises(o)
    THEN fetch_return(t, o)
    ELSE IF IsException(o)
    THEN fetch_except([t EXCEPT !.fails = @ + 1], Exc(o, t.attempt))
    ELSE [t EXCEPT !.pc = "raised", !.fails = @ + 1, !.e = Exc(o, t.attempt)]

\* asyncio.sleep returns: the except block ends and the loop goes on.
fetch_wake(t) == fetch_loop(t, t.attempt + 1)

\* How long an attempt with outcome o can take: a timeout takes the whole
\* timeout, anything else at most that.
Durations_no_timeout(o) == 0..(Timeout + 1)

Durations(o) == IF o = "timeout" THEN {Timeout} ELSE 0..Timeout

(***************************************************************************)
(* SpecFetch: a single call fetch(session, url, retries).                  *)
(***************************************************************************)
InitFetch ==
    /\ \E u \in Urls, r \in 0..MaxRetries : tasks = <<NewTask(u, r)>>
    /\ clock = 0
    /\ urls = <<>> /\ session = "open" /\ spc = "idle" /\ scraped = None
    /\ finished = <<>>
    /\ NoCompute /\ NoMAE /\ NoMain

FetchStart ==
    /\ tasks[1].pc = "start"
    /\ tasks' = [tasks EXCEPT ![1] = fetch_start(@)]
    /\ UNCHANGED <<clock, svars, cvars, mvars, avars>>

FetchRespond ==
    /\ tasks[1].pc = "get"
    /\ \E o \in Outcomes : \E d \in Durations(o) :
          /\ tasks' = [tasks EXCEPT ![1] = fetch_try(@, o)]
          /\ clock' = clock + d
    /\ UNCHANGED <<svars, cvars, mvars, avars>>

FetchWake ==
    /\ tasks[1].pc = "sleep"
    /\ tasks' = [tasks EXCEPT ![1] = fetch_wake(@)]
    /\ clock' = clock + tasks[1].sleeps[Len(tasks[1].sleeps)]
    /\ UNCHANGED <<svars, cvars, mvars, avars>>

NextFetch == FetchStart \/ FetchRespond \/ FetchWake

SpecFetch == InitFetch /\ [][NextFetch]_vars

(***************************************************************************)
(* Claims about fetch, checked under SpecFetch.                            *)
(***************************************************************************)
T == tasks[1]
Ended == T.pc \in {"done", "raised"}

\* C1: with retries >= 1 and every attempt failing, fetch makes exactly
\* `retries` GET attempts, does not raise, and returns "Failed to fetch "
\* followed by the URL and the error of the last attempt (index retries-1).
C1_AllFail ==
    (T.retries >= 1 /\ Ended /\ T.oks = 0 /\ T.oks3xx = 0) =>
        /\ T.pc = "done"
        /\ T.gets = T.retries
        /\ T.fails = T.retries
        /\ T.result.type = "str"
        /\ Len(T.result.s) = 4
        /\ T.result.s[1] = "Failed to fetch "
        /\ T.result.s[2] = T.url
        /\ T.result.s[4].at = T.retries - 1
        /\ T.result.s[4].exc \in FailKinds

\* Three failed attempts, the last one a connection error.
C1_Witness ==
    /\ T.retries = 3 /\ T.pc = "done" /\ T.oks = 0 /\ T.gets = 3
    /\ T.fails = 3
    /\ T.result = FailedToFetch(T.url, Exc("conn", 2))
    /\ clock = Timeout + 1 + 2

\* C2: once an attempt has succeeded the coroutine has returned the body of
\* that attempt; no GET and no sleep was started after it, so the attempts
\* made are the failures before it plus one.
C2_SuccessEnds ==
    (T.oks >= 1) =>
        /\ T.pc = "done"
        /\ T.oks = 1
        /\ T.gets = T.fails + 1
        /\ T.result = Body(T.url, T.fails, "2xx")
        /\ Len(T.sleeps) = T.fails

\* Success at the second of three allowed attempts.
C2_Witness ==
    /\ T.retries = 3 /\ T.oks = 1 /\ T.fails = 1 /\ T.gets = 2
    /\ T.result = Body(T.url, 1, "2xx")

\* C3: the sleep after the failed attempt k (not the last allowed one) is
\* 2^k seconds and attempt k+1 starts exactly that much later; no sleep
\* follows the failure of the last allowed attempt.
C3_SleepsInv ==
    /\ \A k \in 1..Len(T.sleeps) : T.sleeps[k] = 2 ^ (k - 1)
    /\ T.pc = "sleep" => (Len(T.sleeps) = T.fails /\ T.fails < T.retries)
    /\ T.pc = "get" => Len(T.sleeps) = T.gets - 1
    /\ (T.pc = "done" /\ T.oks = 0 /\ T.oks3xx = 0 /\ T.retries >= 1)
          => (T.fails = T.retries /\ Len(T.sleeps) = T.retries - 1)

C3_WakeStep ==
    T.pc = "sleep" =>
        /\ tasks'[1].pc = "get"
        /\ tasks'[1].attempt = T.attempt + 1
        /\ clock' = clock + 2 ^ T.attempt

C3_Backoff == [](C3_SleepsInv) /\ [][C3_WakeStep]_vars

\* The third attempt has started after sleeps of 1 s and 2 s.
C3_Witness ==
    /\ T.pc = "get" /\ T.attempt = 2 /\ T.sleeps = <<1, 2>>
    /\ clock = 0 + 1 + 0 + 2

\* C4 as stated: with retries >= 1 no exception leaves fetch, and every
\* attempt that ends with a non-2xx status, a timeout, a connection error or
\* an error while reading the body is a failed attempt: the result is the
\* body of the first attempt with a 2xx status or the failure string.
C4_Non2xxFails ==
    T.retries >= 1 =>
        /\ T.pc # "raised"
        /\ T.pc = "sleep" => (T.e # None /\ T.e.exc \in FailKinds)
        /\ T.pc = "done" =>
              \/ T.oks = 1 /\ T.result = Body(T.url, T.gets - 1, "2xx")
              \/ /\ T.oks = 0 /\ T.gets = T.retries
                 /\ T.result = FailedToFetch(T.url, T.e)

\* C4 amended: with retries >= 1 no exception leaves fetch, and every
\* attempt that raises (a status >= 400, a timeout, a connection error, an
\* error while reading the body) is a failed attempt: the result is the body
\* of the first attempt that did not raise, whose status may be a non-2xx
\* one below 400, or the failure string after `retries` raising attempts.
C4_NoEscape ==
    T.retries >= 1 =>
        /\ T.pc # "raised"
        /\ T.pc = "sleep" => (T.e # None /\ T.e.exc \in FailKinds)
        /\ T.pc = "done" =>
              \/ /\ T.oks + T.oks3xx = 1
                 /\ T.result \in {Body(T.url, T.fails, "2xx"),
                                  Body(T.url, T.fails, "3xx")}
              \/ /\ T.oks + T.oks3xx = 0 /\ T.fails = T.retries
                 /\ T.result = FailedToFetch(T.url, T.e)

\* Three failed attempts (one of them a timeout), the last one an error
\* while reading the body.
C4_Witness ==
    /\ T.retries = 3 /\ T.pc = "done" /\ T.fails = 3
    /\ T.result = FailedToFetch(T.url, Exc("read", 2))
    /\ clock = 0 + 1 + Timeout + 2 + 3

\* C10 as stated: a successful fetch returns within retries * Timeout
\* seconds of the call, sleeps included.
C10_WithinBudget ==
    (T.pc = "done" /\ T.oks = 1) => clock <= T.retries * Timeout

\* C10 amended: a successful fetch returns within retries * Timeout seconds
\* plus the backoff sleeps 1 + 2 + ... + 2^(retries-2) = 2^(retries-1) - 1.
C10_WithinBudgetAndBackoff ==
    (T.pc = "done" /\ T.oks = 1) =>
        clock <= T.retries * Timeout + (2 ^ (T.retries - 1) - 1)

\* The default budget used up: two timeouts, then a success after 5 s: 18 s.
C10_Witness ==
    /\ T.retries = DefaultRetries /\ T.pc = "done" /\ T.oks = 1
    /\ clock = DefaultRetries * Timeout + 3


\* C17: for every retries >= 0, 0 included, fetch returns a str: a body or
\* the "Failed to fetch" message.
C17_ReturnsStr ==
    T.pc = "done" =>
        /\ T.result.type = "str"
        /\ \/ T.result = FailedToFetch(T.url, T.e)
           \/ \E k \in 0..(T.retries - 1), st \in {"2xx", "3xx"} :
                 T.result = Body(T.url, k, st)

\* With at least one attempt allowed, what fetch returns is a str.
C17_ReturnsStrFromOneAttempt == T.retries >= 1 => C17_ReturnsStr

(***************************************************************************)
(* scrape_all.  spc: "idle" (not yet called), "gather" (awaiting           *)
(* asyncio.gather), "returned", "raised".                                  *)
(***************************************************************************)
SeqsUpTo(S, n) == UNION {[1..k -> S] : k \in 0..n}

Min(a, b) == IF a <= b THEN a ELSE b

\* zip(a, b): the pairs by position, as long as the shorter argument.
zip(a, b) == [k \in 1..Min(Len(a), Len(b)) |-> <<a[k], b[k]>>]

\* dict(pairs): inserted left to right, a later pair replacing an earlier
\* one with the same key.  A dict is a function from its keys.
dict_set(d, key, val) ==
    [x \in DOMAIN d \cup {key} |-> IF x = key THEN val ELSE d[x]]

RECURSIVE dict_from(_, _, _)
dict_from(d, pairs, k) ==
    IF k > Len(pairs) THEN d
    ELSE dict_from(dict_set(d, pairs[k][1], pairs[k][2]), pairs, k + 1)

dict_first_wins(pairs) ==
    [x \in {pairs[k][1] : k \in 1..Len(pairs)} |->
        pairs[CHOOSE k \in 1..Len(pairs) :
                 /\ pairs[k][1] = x
                 /\ \A j \in 1..(k - 1) : pairs[j][1] # x][2]]

dict(pairs) == dict_from(<<>>, pairs, 1)

\* asyncio.gather(*tasks): the results in the order of the arguments.
gather(ts) == [k \in 1..Len(ts) |-> ts[k].result]

InitScrape ==
    /\ urls \in SeqsUpTo(Urls, MaxUrls)
    /\ tasks = <<>> /\ clock = 0
    /\ session = "none" /\ spc = "idle" /\ scraped = None
    /\ finished = <<>>
    /\ NoCompute /\ NoMAE /\ NoMain

\* Lines 31-33 up to the await: open the session, create one fetch per URL
\* with the default retries, hand them to gather.
ScrapeEnter ==
    /\ spc = "idle"
    /\ session' = "open"
    /\ tasks' = [k \in 1..Len(urls) |-> NewTask(urls[k], DefaultRetries)]
    /\ spc' = "gather"
    /\ UNCHANGED <<clock, urls, scraped, finished, cvars, mvars, avars>>

\* One step of task i of the event loop.
TaskStep(i, t) ==
    /\ tasks' = [tasks EXCEPT ![i] = t]
    /\ finished' = IF t.pc \in {"done", "raised"}
                   THEN Append(finished, i) ELSE finished
    /\ UNCHANGED <<clock, urls, session, spc, scraped, cvars, mvars, avars>>

TaskStart ==
    \E i \in 1..Len(tasks) :
        /\ spc = "gather" /\ tasks[i].pc = "start"
        /\ TaskStep(i, fetch_start(tasks[i]))

\* The loop with a sleep that blocks it (time.sleep in place of awaiting
\* asyncio.sleep): no response is handled while a task sleeps.
TaskRespond_blocking_sleep ==
    \E i \in 1..Len(tasks) : \E o \in Outcomes :
        /\ spc = "gather" /\ tasks[i].pc = "get"
        /\ \A j \in 1..Len(tasks) : tasks[j].pc # "sleep"
        /\ TaskStep(i, fetch_try(tasks[i], o))

TaskRespond ==
    \E i \in 1..Len(tasks) : \E o \in Outcomes :
        /\ spc = "gather" /\ tasks[i].pc = "get"
        /\ TaskStep(i, fetch_try(tasks[i], o))

TaskWake ==
    \E i \in 1..Len(tasks) :
        /\ spc = "gather" /\ tasks[i].pc = "sleep"
        /\ TaskStep(i, fetch_wake(tasks[i]))

\* gather as asyncio.wait(return_when=FIRST_COMPLETED) would end.
ScrapeGathered_first_completed ==
    /\ spc = "gather"
    /\ \E i \in 1..Len(tasks) : tasks[i].pc \in {"done", "raised"}
    /\ IF \E i \in 1..Len(tasks) : tasks[i].pc = "raised"
       THEN spc' = "raised" /\ scraped' = scraped
       ELSE spc' = "returned" /\ scraped' = dict(zip(urls, gather(tasks)))
    /\ session' = "closed"
    /\ UNCHANGED <<tasks, clock, urls, finished, cvars, mvars, avars>>

\* gather ends: with an exception as soon as a task has raised, with the
\* list of results once all tasks are done.  Either way the `async with`
\* closes the session.
ScrapeGathered ==
    /\ spc = "gather"
    /\ \/ \E i \in 1..Len(tasks) : tasks[i].pc = "raised"
       \/ \A i \in 1..Len(tasks) : tasks[i].pc = "done"
    /\ IF \E i \in 1..Len(tasks) : tasks[i].pc = "raised"
       THEN spc' = "raised" /\ scraped' = scraped
       ELSE spc' = "returned" /\ scraped' = dict(zip(urls, gather(tasks)))
    /\ session' = "closed"
    /\ UNCHANGED <<tasks, clock, urls, finished, cvars, mvars, avars>>

NextScrape ==
    ScrapeEnter \/ TaskStart \/ TaskRespond \/ TaskWake \/ ScrapeGathered

SpecScrape == InitScrape /\ [][NextScrape]_vars

\* The steps of task i.
TaskRuns(i) ==
    /\ i \in 1..Len(tasks)
    /\ TaskStart \/ TaskRespond \/ TaskWake
    /\ tasks'[i] # tasks[i]

\* The event loop runs every coroutine that is ready: one that was created,
\* one whose sleep is over, one whose GET has ended (which the timeout of 5
\* seconds makes happen), and scrape_all itself once gather is complete.
SpecScrapeFair ==
    /\ SpecScrape
    /\ \A i \in 1..MaxUrls : WF_vars(TaskRuns(i))
    /\ WF_vars(ScrapeGathered)

\* The last position of url u in the argument.
LastPos(u) == CHOOSE k \in 1..Len(urls) :
                 urls[k] = u /\ \A j \in (k + 1)..Len(urls) : urls[j] # u

\* C5: scrape_all returns a mapping whose keys are exactly the distinct URLs
\* of the argument, each mapped to the result of the fetch launched for its
\* last position, in whatever order the tasks completed; for the empty list
\* the mapping is empty.
C5_OneEntryPerUrl ==
    spc = "returned" =>
        /\ DOMAIN scraped = {urls[k] : k \in 1..Len(urls)}
        /\ \A u \in DOMAIN scraped : scraped[u] = tasks[LastPos(u)].result
        /\ urls = <<>> => scraped = <<>>

\* The same URL twice, the second task finishing first, with two results.
C5_Witness ==
    /\ spc = "returned" /\ Len(urls) = 2 /\ urls[1] = urls[2]
    /\ finished = <<2, 1>>
    /\ tasks[1].result # tasks[2].result
    /\ scraped[urls[1]] = tasks[2].result

\* A task that ended did so with a body, or with the failure string after
\* all of its attempts.
C11_RanToItsEnd(t) ==
    /\ t.pc = "done"
    /\ \/ t.oks + t.oks3xx = 1 /\ t.gets = t.fails + 1
       \/ /\ t.oks + t.oks3xx = 0
          /\ t.gets = DefaultRetries /\ t.fails = DefaultRetries
          /\ t.result = FailedToFetch(t.url, t.e)

C11_AllTerminated ==
    spc \in {"returned", "raised"} =>
        /\ Len(tasks) = Len(urls)
        /\ \A i \in 1..Len(tasks) : C11_RanToItsEnd(tasks[i])

\* A step in which task i ends in failure leaves every other task as it is.
C11_NoCancel ==
    \A i \in 1..Len(tasks) :
        (Len(tasks') = Len(tasks) /\ tasks[i].pc # "done"
            /\ tasks'[i].pc = "done" /\ tasks'[i].oks + tasks'[i].oks3xx = 0) =>
            \A j \in 1..Len(tasks) : j # i => tasks'[j] = tasks[j]

\* C11: scrape_all returns only after every fetch task it launched has
\* ended, each with a body or with its own three attempts used up; the
\* terminal failure of one task changes no other task; and once the tasks
\* are launched, scrape_all does return.
C11_WaitsForAll ==
    /\ [](C11_AllTerminated)
    /\ [][C11_NoCancel]_vars
    /\ (spc = "gather" ~> spc = "returned")

\* Task 1 failed for good while task 2 had not issued its second attempt;
\* task 2 then went through all of its three attempts before the return.
C11_Witness ==
    /\ spc = "returned" /\ Len(tasks) = 2 /\ finished = <<1, 2>>
    /\ tasks[1].fails = 3 /\ tasks[2].fails = 3
    /\ tasks[2].e.at = 2 /\ tasks[2].sleeps = <<1, 2>>

\* While task i sleeps, a sibling that is not at its end can take its next
\* step: a created one can issue its first GET, one awaiting a GET can
\* end with the body, a sleeping one can wake up.
C13_NotBlocked ==
    \A i, j \in 1..Len(tasks) :
        (i # j /\ spc = "gather" /\ tasks[i].pc = "sleep") =>
            /\ tasks[j].pc = "start" =>
                  ENABLED (TaskRuns(j) /\ tasks'[j].gets = 1)
            /\ tasks[j].pc = "get" =>
                  ENABLED (TaskRuns(j) /\ tasks'[j].pc = "done"
                              /\ tasks'[j].oks = 1)
            /\ tasks[j].pc = "sleep" =>
                  ENABLED (TaskRuns(j) /\ tasks'[j].pc = "get")

\* The attempt index and the delays of a task follow from its own failures.
C13_OwnCounters ==
    \A j \in 1..Len(tasks) :
        LET t == tasks[j] IN
        /\ t.pc = "get" => t.attempt = t.fails /\ t.gets = t.fails + 1
        /\ t.pc = "sleep" => t.attempt = t.fails - 1 /\ t.gets = t.fails
        /\ t.sleeps =
              [k \in 1..(IF t.pc = "done" /\ t.fails = DefaultRetries
                         THEN t.fails - 1 ELSE t.fails) |-> 2 ^ (k - 1)]

\* A step of one task leaves its siblings as they are.
C13_Independent ==
    \A i, j \in 1..Len(tasks) :
        (Len(tasks') = Len(tasks) /\ i # j /\ tasks'[j] # tasks[j]) =>
            tasks'[i] = tasks[i]

\* C13: while one fetch task sleeps in its backoff, every other task of the
\* call can issue attempts and complete; the attempt counter and the delay
\* of a task depend on its own failures only.
C13_BackoffIsolated ==
    /\ [](C13_NotBlocked /\ C13_OwnCounters)
    /\ [][C13_Independent]_vars

\* Task 1 sleeps after its second failure; meanwhile task 2 was started,
\* failed once, slept a second and got its body at the second attempt.
C13_Witness ==
    /\ spc = "gather" /\ Len(tasks) = 2
    /\ tasks[1].pc = "sleep" /\ tasks[1].sleeps = <<1, 2>>
    /\ tasks[2].pc = "done" /\ tasks[2].oks = 1 /\ tasks[2].gets = 2
    /\ tasks[2].sleeps = <<1>>
    /\ finished = <<2>>


(***************************************************************************)
(* expensive_computation behind @lru_cache(maxsize=1000), and              *)
(* run_computations.                                                       *)
(***************************************************************************)
maxsize == 1000         \* @lru_cache(maxsize=1000)
RangeStop == 100000     \* range(1, 10**5)
Modulus == 97           \* (x * i) % 97
ExtraFill == 1          \* direct calls tried beyond maxsize
MaxRuns == 2            \* run_computations calls tried
Slack == 0              \* runs are tried with at most this many free slots

\* The body of expensive_computation: the total of (x * i) % 97 over
\* i in range(1, 10**5).  BagCardinality adds up the values of a function,
\* which must be positive, so each term is counted one higher and the
\* RangeStop - 1 ones are taken off again.  (Python's % with a positive
\* modulus is never negative, like the % of TLA+.)
expensive_computation_inclusive(x) ==
    BagCardinality([i \in 1..RangeStop |-> ((x * i) % Modulus) + 1])
        - RangeStop

expensive_computation(x) ==
    BagCardinality([i \in 1..(RangeStop - 1) |-> ((x * i) % Modulus) + 1])
        - (RangeStop - 1)

\* The inputs tried: two of main's numbers in run_computations, and fresh
\* numbers in direct calls that fill the cache.
HotKeys == {42, 1337}
NumberLists == {<<42>>, <<1337, 42>>, <<42, 42>>}
MaxFill == maxsize + ExtraFill
Filler(n) == 2000 + n
KeyUniverse == HotKeys \cup {Filler(n) : n \in 1..MaxFill}

\* lru_cache: the links in the order of the linked list, oldest (root.next)
\* first, newest (root.prev) last.
CacheKeys(c) == {c[k].key : k \in 1..Len(c)}
Link(c, x) == c[CHOOSE k \in 1..Len(c) : c[k].key = x]
Without(c, x) == SelectSeq(c, LAMBDA l : l.key # x)

\* A hit: the link moves to the newest end.
lru_hit_in_place(c, x) == c

lru_hit(c, x) == Append(Without(c, x), Link(c, x))

\* After the call of the wrapped function on a miss: nothing if the key was
\* stored in the meantime, else a new newest link, in place of the oldest
\* one when the cache is full.
lru_store_unbounded(c, x, result) ==
    IF x \in CacheKeys(c) THEN c
    ELSE Append(c, [key |-> x, result |-> result])

\* The store without the look for a link added in the meantime.
lru_store_no_recheck(c, x, result) ==
    IF Len(c) >= maxsize
    THEN Append(Tail(c), [key |-> x, result |-> result])
    ELSE Append(c, [key |-> x, result |-> result])

lru_store(c, x, result) ==
    IF x \in CacheKeys(c) THEN c
    ELSE IF Len(c) >= maxsize
    THEN Append(Tail(c), [key |-> x, result |-> result])
    ELSE Append(c, [key |-> x, result |-> result])

\* The bookkeeping of a hit on x, or of a store of x that added a link.
Touch(x) == tick' = tick + 1 /\ used' = dict_set(used, x, tick + 1)

Evicted(c, x) ==
    IF x \notin CacheKeys(c) /\ Len(c) >= maxsize THEN {c[1].key} ELSE {}

\* The cache starts empty.  The body of expensive_computation is a pure
\* function: it is evaluated here once for each input tried, and the steps
\* below that run the body read its result from `computation`.
InitCompute ==
    /\ EmptyCache
    /\ computation = [x \in KeyUniverse |-> expensive_computation(x)]
    /\ NoFetch /\ NoScrape /\ NoMAE /\ NoMain

\* A direct call expensive_computation(x) while no pool is running, for the
\* next fresh number: lookup, the wrapped function, store.
Call ==
    /\ rpc = "idle" /\ nfill < MaxFill
    /\ LET x == Filler(nfill + 1) IN
          IF x \in CacheKeys(cache)
          THEN /\ cache' = lru_hit(cache, x)
               /\ evicted' = evicted
               /\ Touch(x)
          ELSE /\ cache' = lru_store(cache, x, computation[x])
               /\ evicted' = evicted \cup Evicted(cache, x)
               /\ Touch(x)
    /\ nfill' = nfill + 1
    /\ UNCHANGED <<numbers, jobs, rpc, computed, history, computation,
                   fvars, svars, mvars, avars>>

\* run_computations(ns): executor.map submits one job per position.  The
\* calls are tried on the empty cache and on a cache that is (nearly) full.
RunStart ==
    /\ rpc = "idle" /\ Len(history) < MaxRuns
    /\ Len(cache) = 0 \/ Len(cache) >= maxsize - Slack
    /\ \E ns \in NumberLists :
          /\ numbers' = ns
          /\ jobs' = [k \in 1..Len(ns) |->
                        [pc |-> "queued", result |-> None, hit |-> FALSE]]
    /\ rpc' = "map"
    /\ UNCHANGED <<cache, tick, used, evicted, nfill, computed, history,
                   computation, fvars, svars, mvars, avars>>

\* A worker thread enters the wrapper for position k: the lookup.
JobLookup ==
    \E k \in 1..Len(jobs) :
        /\ rpc = "map" /\ jobs[k].pc = "queued"
        /\ IF numbers[k] \in CacheKeys(cache)
           THEN /\ jobs' = [jobs EXCEPT ![k] =
                              [pc |-> "done", hit |-> TRUE,
                               result |-> Link(cache, numbers[k]).result]]
                /\ cache' = lru_hit(cache, numbers[k])
                /\ Touch(numbers[k])
           ELSE /\ jobs' = [jobs EXCEPT ![k].pc = "computing"]
                /\ UNCHANGED <<cache, tick, used>>
        /\ UNCHANGED <<evicted, nfill, numbers, rpc, computed, history,
                       computation, fvars, svars, mvars, avars>>

\* The wrapped function has returned for position k: the store.  A job that
\* is running goes on while the pool is being shut down ("draining").
JobStore ==
    \E k \in 1..Len(jobs) :
        /\ rpc \in {"map", "draining"} /\ jobs[k].pc = "computing"
        /\ LET x == numbers[k] IN
              /\ jobs' = [jobs EXCEPT ![k] =
                            [pc |-> "done", hit |-> FALSE,
                             result |-> computation[x]]]
              /\ cache' = lru_store(cache, x, computation[x])
              /\ evicted' = evicted \cup Evicted(cache, x)
              /\ IF x \in CacheKeys(cache)
                 THEN UNCHANGED <<tick, used>> ELSE Touch(x)
        /\ UNCHANGED <<nfill, numbers, rpc, computed, history, computation,
                       fvars, svars, mvars, avars>>

\* list(executor.map(...)) is complete: leave the pool, return the dict.
RunReturn ==
    /\ rpc = "map"
    /\ \A k \in 1..Len(jobs) : jobs[k].pc = "done"
    /\ rpc' = "idle"
    /\ numbers' = <<>> /\ jobs' = <<>>
    /\ computed' = dict(zip(numbers, [k \in 1..Len(jobs) |-> jobs[k].result]))
    /\ history' = Append(history,
                     [numbers |-> numbers, computed |-> computed',
                      hits |-> {k \in 1..Len(jobs) : jobs[k].hit},
                      after |-> evicted])
    /\ UNCHANGED <<cache, tick, used, evicted, nfill, computation,
                   fvars, svars, mvars, avars>>

NextCompute == Call \/ RunStart \/ JobLookup \/ JobStore \/ RunReturn

SpecCompute == InitCompute /\ [][NextCompute]_vars


(***************************************************************************)
(* Claims about run_computations and the cache, checked under SpecCompute. *)
(***************************************************************************)
\* The sum of (x * i) mod 97 for i from lo to hi, by halving the range.
RECURSIVE C6_Sum(_, _, _)
C6_Sum(x, lo, hi) ==
    IF lo > hi THEN 0
    ELSE IF lo = hi THEN (x * lo) % 97
    ELSE C6_Sum(x, lo, (lo + hi) \div 2) + C6_Sum(x, (lo + hi) \div 2 + 1, hi)

C6_f == (42 :> C6_Sum(42, 1, 99999)) @@ (1337 :> C6_Sum(1337, 1, 99999))

\* C6: every dict run_computations returned has exactly the distinct inputs
\* as keys and maps x to the sum over i in 1..99999 of (x*i mod 97), and
\* two calls with the same inputs returned the same dict, whether the
\* values came from the cache or were computed again after an eviction.
C6_Deterministic ==
    \A h \in 1..Len(history) :
        LET r == history[h] IN
        /\ DOMAIN r.computed = {r.numbers[k] : k \in 1..Len(r.numbers)}
        /\ \A x \in DOMAIN r.computed : r.computed[x] = C6_f[x]
        /\ \A g \in 1..Len(history) :
              history[g].numbers = r.numbers
                  => history[g].computed = r.computed

\* run_computations([42, 42]) twice: first on the empty cache, the second
\* job served from the cache; again after 42 was evicted, computed anew.
C6_Witness ==
    /\ Len(history) = 2
    /\ history[1].numbers = <<42, 42>> /\ history[2].numbers = <<42, 42>>
    /\ history[1].hits = {2} /\ 42 \notin history[1].after
    /\ history[2].hits = {} /\ 42 \in history[2].after
    /\ history[2].computed = history[1].computed
    /\ history[2].computed[42] = 4799960

\* C7: the cache never holds more than 1000 inputs (each once), and a step
\* that adds a new input to a full cache drops exactly one link, the one
\* whose last hit or store is the oldest, and keeps every other link.
C7_Bounded ==
    /\ Len(cache) <= 1000
    /\ Cardinality(CacheKeys(cache)) = Len(cache)

C7_Links(c) == {c[k] : k \in 1..Len(c)}

C7_EvictsLRU ==
    (Len(cache) = 1000 /\ cache' # cache
        /\ CacheKeys(cache') # CacheKeys(cache)) =>
        LET gone == C7_Links(cache) \ C7_Links(cache')
            new == C7_Links(cache') \ C7_Links(cache)
        IN  /\ Cardinality(gone) = 1
            /\ Cardinality(new) = 1
            /\ \A l \in new : l.key \notin CacheKeys(cache)
            /\ \A l \in gone : \A y \in CacheKeys(cache) :
                  used[l.key] <= used[y]

C7_Capacity == [](C7_Bounded) /\ [][C7_EvictsLRU]_vars

\* 42 was stored first and hit again when the cache held 999 inputs: the
\* 1001st distinct input evicted the first filler, not 42.
C7_Witness ==
    /\ Len(history) = 2
    /\ history[1].numbers = <<42>> /\ history[1].hits = {}
    /\ history[2].numbers = <<42>> /\ history[2].hits = {1}
    /\ evicted = {Filler(1)}
    /\ Len(cache) = 1000 /\ 42 \in CacheKeys(cache)
    /\ used[42] > used[Filler(1)]

\* C14: with the worker threads of run_computations in the wrapper at the
\* same time, also for the same input, in every interleaving of their
\* lookups and stores the cache holds each input at most once and at most
\* 1000 inputs, each link holds f of its input, and every job that ended
\* has f(x) for its own x.
C14_ThreadSafe ==
    /\ Len(cache) <= maxsize
    /\ Cardinality({cache[k].key : k \in 1..Len(cache)}) = Len(cache)
    /\ \A k \in 1..Len(cache) :
          cache[k].key \in HotKeys => cache[k].result = C6_f[cache[k].key]
    /\ \A k \in 1..Len(jobs) :
          jobs[k].pc = "done" => jobs[k].result = C6_f[numbers[k]]

\* run_computations([42, 42]) on a full cache: both threads missed, both
\* ran the function, and 42 was stored once, for one eviction.
C14_Witness ==
    /\ Len(history) = 1
    /\ history[1].numbers = <<42, 42>> /\ history[1].hits = {}
    /\ history[1].computed[42] = 4799960
    /\ Len(cache) = maxsize /\ Cardinality(evicted) = 1
    /\ cache[Len(cache)].key = 42


(***************************************************************************)
(* main, run by asyncio.run: scrape_all as a task of the event loop and    *)
(* run_computations in a thread of the default executor, awaited together. *)
(* mpc: "start", "await" (at the gather of line 57), "printed", "raised"   *)
(* (main ended with an exception), "cancelling" (asyncio.run is cancelling *)
(* the tasks that are left), "closed" (the loop is closed).                *)
(* The URL and number lists of main are tried at the lengths of the other  *)
(* specifications.                                                         *)
(***************************************************************************)
MainUrls ==
    {us \in SeqsUpTo(Urls, MaxUrls) :
        Len(us) >= 1 /\ \A j, k \in 1..Len(us) : us[j] = us[k] => j = k}

InitMain ==
    /\ urls \in MainUrls
    /\ tasks = <<>> /\ clock = 0
    /\ session = "none" /\ spc = "idle" /\ scraped = None
    /\ finished = <<>>
    /\ EmptyCache
    /\ computation = [x \in HotKeys |-> expensive_computation(x)]
    /\ NoMAE
    /\ mpc = "start" /\ printed = None

\* Lines 43-57: create the scrape task, hand run_computations to the
\* executor, await both.
MainStart ==
    /\ mpc = "start"
    /\ mpc' = "await"
    /\ UNCHANGED <<printed, fvars, svars, cvars, mvars>>

\* The event loop runs scrape_all and its fetch tasks for as long as it
\* runs: while main awaits, and in the iteration in which main has ended.
MainScrapeStep ==
    /\ mpc \in {"await", "raised"}
    /\ NextScrape

\* The executor's thread runs run_computations(numbers), once.
MainComputeStep ==
    /\ mpc = "await"
    /\ \/ history = <<>> /\ RunStart
       \/ JobLookup
       \/ JobStore
       \/ RunReturn

\* The wrapped function of position k ends in a fault (resource exhaustion:
\* expensive_computation has no error path of its own).
JobFault ==
    \E k \in 1..Len(jobs) :
        /\ mpc = "await"
        /\ rpc \in {"map", "draining"} /\ jobs[k].pc = "computing"
        /\ jobs' = [jobs EXCEPT ![k] =
                      [pc |-> "raised", hit |-> FALSE, result |-> None]]
        /\ UNCHANGED <<cache, tick, used, evicted, nfill, numbers, rpc,
                       computed, history, computation, fvars, svars, mvars,
                       avars>>

\* list(executor.map(...)) reaches, in the order of the arguments, a job
\* that raised: the iterator cancels the futures that are not running yet,
\* and the `with` block starts the shutdown of the pool.
RunMapRaises ==
    /\ rpc = "map"
    /\ \E k \in 1..Len(jobs) :
          /\ jobs[k].pc = "raised"
          /\ \A j \in 1..(k - 1) : jobs[j].pc = "done"
    /\ jobs' = [k \in 1..Len(jobs) |->
                  IF jobs[k].pc = "queued"
                  THEN [jobs[k] EXCEPT !.pc = "cancelled"] ELSE jobs[k]]
    /\ rpc' = "draining"
    /\ UNCHANGED <<cache, tick, used, evicted, nfill, numbers, computed,
                   history, computation, fvars, svars, mvars, avars>>

\* shutdown(wait=True) is over: run_computations ends with the exception.
RunRaised ==
    /\ rpc = "draining"
    /\ \A k \in 1..Len(jobs) : jobs[k].pc # "computing"
    /\ rpc' = "raised"
    /\ UNCHANGED <<cache, tick, used, evicted, nfill, numbers, jobs,
                   computed, history, computation, fvars, svars, mvars,
                   avars>>

\* main going on as soon as the scrape is over, whatever the pool does.
MainPrint_scrape_only ==
    /\ mpc = "await"
    /\ spc = "returned"
    /\ printed' = [scraped |-> scraped, computed |-> computed]
    /\ mpc' = "printed"
    /\ UNCHANGED <<fvars, svars, cvars, mvars>>

\* Line 57 returns with both results; lines 59-67 print them.
MainPrint ==
    /\ mpc = "await"
    /\ spc = "returned" /\ rpc = "idle" /\ Len(history) = 1
    /\ printed' = [scraped |-> scraped, computed |-> computed]
    /\ mpc' = "printed"
    /\ UNCHANGED <<fvars, svars, cvars, mvars>>

\* Line 57 raises the first exception of the two: main ends with it.  The
\* exception of the thread reaches the loop as a callback, behind the first
\* step of the scrape task.
MainRaise ==
    /\ mpc = "await"
    /\ "raised" \in {rpc, spc} /\ spc # "idle"
    /\ mpc' = "raised"
    /\ UNCHANGED <<printed, fvars, svars, cvars, mvars>>

\* A task that is cancelled: CancelledError, which `except Exception` does
\* not catch, is raised at its await.
fetch_cancel(t) ==
    IF t.pc \in {"start", "get", "sleep"}
    THEN [t EXCEPT !.pc = "cancelled", !.e = Exc("cancelled", t.attempt)]
    ELSE t

\* asyncio.run, main having raised: every task that is left is cancelled.
LoopCancel ==
    /\ mpc = "raised"
    /\ IF spc = "gather"
       THEN /\ tasks' = [i \in 1..Len(tasks) |-> fetch_cancel(tasks[i])]
            /\ mpc' = "cancelling"
       ELSE /\ tasks' = tasks
            /\ mpc' = "closed"
    /\ UNCHANGED <<clock, printed, svars, cvars, mvars>>

\* scrape_all with a session that is closed on the normal return only.
ScrapeCancelled_session_left_open ==
    /\ mpc = "cancelling" /\ spc = "gather"
    /\ spc' = "cancelled"
    /\ session' = session
    /\ mpc' = "closed"
    /\ UNCHANGED <<tasks, clock, urls, scraped, finished, printed, cvars,
                   mvars>>

\* scrape_all gets the CancelledError at its await of gather; the
\* `async with` closes the session on the way out.
ScrapeCancelled ==
    /\ mpc = "cancelling" /\ spc = "gather"
    /\ spc' = "cancelled"
    /\ session' = "closed"
    /\ mpc' = "closed"
    /\ UNCHANGED <<tasks, clock, urls, scraped, finished, printed, cvars,
                   mvars>>

NextMain ==
    \/ MainStart \/ MainScrapeStep \/ MainComputeStep
    \/ JobFault \/ RunMapRaises \/ RunRaised
    \/ MainPrint \/ MainRaise \/ LoopCancel \/ ScrapeCancelled

SpecMain == InitMain /\ [][NextMain]_vars

\* The event loop runs what is ready, the executor's threads run, and
\* asyncio.run goes through its shutdown; a fault is never bound to happen.
\* Every step changes the position of a task, of a job or of a function.
positions == <<tasks, spc, jobs, rpc, mpc>>

SpecMainFair ==
    /\ SpecMain
    /\ WF_positions(MainStart) /\ WF_positions(MainScrapeStep)
    /\ WF_positions(MainComputeStep)
    /\ WF_positions(RunMapRaises) /\ WF_positions(RunRaised)
    /\ WF_positions(MainPrint) /\ WF_positions(MainRaise)
    /\ WF_positions(LoopCancel) /\ WF_positions(ScrapeCancelled)

(***************************************************************************)
(* Claims about main and about scrape_all within it, checked under         *)
(* SpecMain.                                                               *)
(***************************************************************************)
\* The session is open while a task awaits a GET or sleeps between two
\* attempts, and it was opened if any GET was ever issued.
C12_OpenWhileRunning ==
    \A i \in 1..Len(tasks) :
        /\ tasks[i].pc \in {"get", "sleep"} => session = "open"
        /\ tasks[i].gets > 0 => session # "none"

\* However scrape_all ended, the session is closed.
C12_ClosedOnExit ==
    spc \in {"returned", "raised", "cancelled"} => session = "closed"

\* A step that issues a GET starts and ends with the session open.
C12_GetOnOpen ==
    \A i \in 1..Len(tasks) :
        (Len(tasks') = Len(tasks) /\ tasks'[i].gets > tasks[i].gets) =>
            session = "open" /\ session' = "open"

\* C12: the session of a scrape_all call is opened before the first GET of
\* any of its fetch tasks, is open during every attempt and every backoff,
\* is closed when scrape_all has ended, by return or by an error, and no
\* GET is issued on a session that is not open.
C12_SessionScope ==
    /\ [](C12_OpenWhileRunning /\ C12_ClosedOnExit)
    /\ [][C12_GetOnOpen]_vars

\* scrape_all ended by cancellation, with one task cancelled in the backoff
\* after its second attempt and one cancelled at its first GET.
C12_Witness ==
    /\ spc = "cancelled" /\ session = "closed" /\ Len(tasks) = 2
    /\ tasks[1].pc = "cancelled" /\ tasks[1].sleeps = <<1, 2>>
    /\ tasks[1].gets = 2
    /\ tasks[2].pc = "cancelled" /\ tasks[2].gets = 1
    /\ tasks[2].sleeps = <<>>

C15_Faulted == \E k \in 1..Len(jobs) : jobs[k].pc = "raised"

C15_Cancelled ==
    \/ spc = "cancelled"
    \/ \E i \in 1..Len(tasks) : tasks[i].pc = "cancelled"
    \/ \E k \in 1..Len(jobs) : jobs[k].pc = "cancelled"

\* main has printed: scrape_all had returned with every fetch task at its
\* end, run_computations had returned with every input computed, and what
\* was printed are their two dicts.
C15_PrintedAfterBoth ==
    mpc = "printed" =>
        /\ spc = "returned" /\ Len(tasks) = Len(urls)
        /\ \A i \in 1..Len(tasks) : C11_RanToItsEnd(tasks[i])
        /\ rpc = "idle" /\ Len(history) = 1
        /\ printed = [scraped |-> scraped, computed |-> history[1].computed]
        /\ DOMAIN printed.scraped = {urls[k] : k \in 1..Len(urls)}
        /\ DOMAIN printed.computed =
              {history[1].numbers[k] : k \in 1..Len(history[1].numbers)}

\* C15 as claimed: in no execution, a fault of the other subsystem
\* included, a fetch task or a computation is cancelled, and main prints
\* only after both subsystems have finished.
C15_NothingCancelled ==
    /\ ~C15_Cancelled
    /\ C15_PrintedAfterBoth

\* C15, amended: without a fault of a computation nothing is cancelled and
\* main prints, after both subsystems have finished with every fetch task
\* and every computation at its end.  With a fault main prints nothing, and
\* when it is over every fetch task has ended or was cancelled and the
\* session is closed.  main is over in every execution.
C15_Inv ==
    /\ C15_PrintedAfterBoth
    /\ (C15_Cancelled \/ mpc \notin {"start", "await", "printed"})
          => C15_Faulted
    /\ C15_Faulted => printed = None /\ mpc # "printed"
    /\ mpc = "closed" =>
          /\ spc \in {"returned", "cancelled"} /\ session = "closed"
          /\ \A i \in 1..Len(tasks) : tasks[i].pc \in {"done", "cancelled"}
          /\ \A k \in 1..Len(jobs) : jobs[k].pc # "computing"

C15_CompletionUnlessFault ==
    /\ [](C15_Inv)
    /\ <>(mpc \in {"printed", "closed"})
    /\ <>(mpc = "printed" \/ C15_Faulted)

\* run_computations([1337, 42]): the first computation ended in a fault
\* before the second was started; main ended while task 1 was in its second
\* backoff, and the task was cancelled.
C15_Witness ==
    /\ mpc = "closed" /\ printed = None /\ spc = "cancelled"
    /\ numbers = <<1337, 42>>
    /\ jobs[1].pc = "raised" /\ jobs[2].pc = "cancelled"
    /\ tasks[1].pc = "cancelled" /\ tasks[1].sleeps = <<1, 2>>


(***************************************************************************)
(* update_weights_MAE (weight_mae.py).  The arguments are Python numbers;  *)
(* they are modelled as exact fractions <<numerator, denominator>> with a  *)
(* positive denominator, in lowest terms, so that rounding is left out.    *)
(***************************************************************************)
MaxN == 2               \* longest dataset tried
MaxCalls == 2           \* calls tried with the same arguments

Abs(n) == IF n < 0 THEN -n ELSE n

RECURSIVE GCD(_, _)
GCD(a, b) == IF b = 0 THEN a ELSE GCD(b, a % b)

Rat(n, d) ==
    LET g == GCD(Abs(n), Abs(d))
        sgn == IF d < 0 THEN -1 ELSE 1
    IN  <<(sgn * n) \div g, (sgn * d) \div g>>

RatAdd(p, q) == Rat(p[1] * q[2] + q[1] * p[2], p[2] * q[2])
RatNeg(p) == <<-p[1], p[2]>>
RatSub(p, q) == RatAdd(p, RatNeg(q))
RatMul(p, q) == Rat(p[1] * q[1], p[2] * q[2])
RatAbs(p) == <<Abs(p[1]), p[2]>>
RatIsZero(p) == p[1] = 0
\* p / q for q # 0; the callers raise ZeroDivisionError for q = 0.
RatDiv(p, q) == Rat(p[1] * q[2], p[2] * q[1])
RatOfInt(n) == <<n, 1>>
Zero == RatOfInt(0)

\* The arguments tried.
Ms == {Zero, Rat(1, 2)}
Bs == {Zero, RatOfInt(1)}
Xs == {RatOfInt(-1), Rat(1, 2), RatOfInt(2)}
Ys == {Zero, RatOfInt(1), RatOfInt(3)}
Rates == {Rat(1, 10), RatOfInt(1)}

\* Lines 2-4: the locals at the head of the loop; i counts the samples done.
mae_enter(a) ==
    [m |-> a.m, b |-> a.b, m_deriv |-> Zero, b_deriv |-> Zero,
     N |-> Len(a.X), i |-> 0, pc |-> "loop", ret |-> None, exc |-> None]

Raise(f, what) == [f EXCEPT !.pc = "raised", !.exc = what]

\* Lines 5-11 for the next sample (index f.i in the code, f.i + 1 here).
\*   m_deriv += - X[i] * r / abs(r)    is ((-X[i]) * r) / abs(r)
\*   b_deriv += -(r) / abs(r)
\* with r = Y[i] - (m*X[i] + b); both divisions raise for abs(r) = 0.
mae_iter_as_commented(f, X, Y) ==
    LET x == X[f.i + 1]
        r == RatSub(Y[f.i + 1], RatAdd(RatMul(f.m, x), f.b))
        d == RatAbs(RatAdd(RatMul(f.m, x), f.b))
    IN  IF RatIsZero(d) THEN Raise(f, "ZeroDivisionError")
        ELSE [f EXCEPT
                !.m_deriv = RatAdd(@, RatDiv(RatMul(RatNeg(x), r), d)),
                !.b_deriv = RatAdd(@, RatDiv(RatNeg(r), d)),
                !.i = @ + 1]

mae_iter_skips_zero(f, X, Y) ==
    LET x == X[f.i + 1]
        r == RatSub(Y[f.i + 1], RatAdd(RatMul(f.m, x), f.b))
    IN  IF RatIsZero(RatAbs(r)) THEN [f EXCEPT !.i = @ + 1]
        ELSE [f EXCEPT
                !.m_deriv = RatAdd(@, RatDiv(RatMul(RatNeg(x), r), RatAbs(r))),
                !.b_deriv = RatAdd(@, RatDiv(RatNeg(r), RatAbs(r))),
                !.i = @ + 1]

mae_iter(f, X, Y) ==
    LET x == X[f.i + 1]
        r == RatSub(Y[f.i + 1], RatAdd(RatMul(f.m, x), f.b))
    IN  IF RatIsZero(RatAbs(r)) THEN Raise(f, "ZeroDivisionError")
        ELSE [f EXCEPT
                !.m_deriv = RatAdd(@, RatDiv(RatMul(RatNeg(x), r), RatAbs(r))),
                !.b_deriv = RatAdd(@, RatDiv(RatNeg(r), RatAbs(r))),
                !.i = @ + 1]

\* Lines 14-17: m -= (m_deriv / float(N)) * learning_rate, the same for b,
\* return m, b.  The division raises for N = 0.
mae_update(f, learning_rate) ==
    IF f.N = 0 THEN Raise(f, "ZeroDivisionError")
    ELSE LET m2 == RatSub(f.m, RatMul(RatDiv(f.m_deriv, RatOfInt(f.N)),
                                      learning_rate))
             b2 == RatSub(f.b, RatMul(RatDiv(f.b_deriv, RatOfInt(f.N)),
                                      learning_rate))
         IN  [f EXCEPT !.m = m2, !.b = b2, !.pc = "returned",
                       !.ret = <<m2, b2>>]

InitMAE ==
    /\ \E m \in Ms, b \in Bs, lr \in Rates, n \in 0..MaxN :
       \E X \in [1..n -> Xs], Y \in [1..n -> Ys] :
          args = [m |-> m, b |-> b, X |-> X, Y |-> Y, learning_rate |-> lr]
    /\ frame = None /\ returns = <<>>
    /\ NoFetch /\ NoScrape /\ NoCompute /\ NoMain

MaeEnter ==
    /\ frame = None
    /\ frame' = mae_enter(args)
    /\ UNCHANGED <<args, returns, fvars, svars, cvars, avars>>

MaeIter ==
    /\ frame # None /\ frame.pc = "loop" /\ frame.i < frame.N
    /\ frame' = mae_iter(frame, args.X, args.Y)
    /\ UNCHANGED <<args, returns, fvars, svars, cvars, avars>>

\* m -= ... and b -= ... on objects that are changed in place.
MaeUpdate_in_place ==
    /\ frame # None /\ frame.pc = "loop" /\ frame.i >= frame.N
    /\ frame' = mae_update(frame, args.learning_rate)
    /\ args' = [args EXCEPT !.m = frame'.m, !.b = frame'.b]
    /\ UNCHANGED <<returns, fvars, svars, cvars, avars>>

MaeUpdate ==
    /\ frame # None /\ frame.pc = "loop" /\ frame.i >= frame.N
    /\ frame' = mae_update(frame, args.learning_rate)
    /\ UNCHANGED <<args, returns, fvars, svars, cvars, avars>>

\* The caller, with the same objects as arguments, calls again.
MaeCallAgain ==
    /\ frame # None /\ frame.pc \in {"returned", "raised"}
    /\ Len(returns) < MaxCalls - 1
    /\ returns' = Append(returns, [pc |-> frame.pc, ret |-> frame.ret,
                                   exc |-> frame.exc])
    /\ frame' = None
    /\ UNCHANGED <<args, fvars, svars, cvars, avars>>

NextMAE == MaeEnter \/ MaeIter \/ MaeUpdate \/ MaeCallAgain

SpecMAE == InitMAE /\ [][NextMAE]_vars

(***************************************************************************)
(* Claims about update_weights_MAE, checked under SpecMAE.                 *)
(***************************************************************************)
\* The residual of sample k for the caller's m and b, and its sign.
Residual(k) ==
    RatSub(args.Y[k], RatAdd(RatMul(args.m, args.X[k]), args.b))
Sign(p) == IF p[1] > 0 THEN 1 ELSE IF p[1] < 0 THEN -1 ELSE 0
NSamples == Len(args.X)
ZeroResiduals == {k \in 1..NSamples : RatIsZero(Residual(k))}

\* The sum over the samples 1..k of -X[i] * sign(r_i), and of -sign(r_i).
RECURSIVE C8_SumM(_)
C8_SumM(k) ==
    IF k = 0 THEN Zero
    ELSE RatAdd(C8_SumM(k - 1),
                RatMul(RatNeg(args.X[k]), RatOfInt(Sign(Residual(k)))))

RECURSIVE C8_SumB(_)
C8_SumB(k) ==
    IF k = 0 THEN 0 ELSE C8_SumB(k - 1) - Sign(Residual(k))

\* C8 in exact arithmetic: for N >= 1 samples with nonzero residuals the
\* call returns
\*   m' = m - learning_rate * (sum_i -X[i]*sign(r_i)) / N
\*   b' = b - learning_rate * (sum_i -sign(r_i)) / N
\* with every residual taken for the caller's m and b.
C8_Step ==
    (frame # None /\ frame.pc \in {"returned", "raised"}
        /\ NSamples >= 1 /\ ZeroResiduals = {}) =>
        /\ frame.pc = "returned"
        /\ frame.ret[1] =
              RatSub(args.m, RatDiv(RatMul(args.learning_rate,
                                           C8_SumM(NSamples)),
                                    RatOfInt(NSamples)))
        /\ frame.ret[2] =
              RatSub(args.b, RatDiv(RatMul(args.learning_rate,
                                           RatOfInt(C8_SumB(NSamples))),
                                    RatOfInt(NSamples)))

\* m = 1/2, b = 1, X = [2, -1], Y = [3, 0], learning_rate = 1/10: the
\* residuals are 1 and -1/2, so m' = 1/2 + 3/20 and b' = 1.
C8_Witness ==
    /\ frame # None /\ frame.pc = "returned"
    /\ args.m = Rat(1, 2) /\ args.b = RatOfInt(1)
    /\ args.X = <<RatOfInt(2), RatOfInt(-1)>>
    /\ args.Y = <<RatOfInt(3), Zero>>
    /\ args.learning_rate = Rat(1, 10)
    /\ frame.ret = <<Rat(13, 20), RatOfInt(1)>>

C16_Ended == frame # None /\ frame.pc \in {"returned", "raised"}

\* The pair returned is the value of the locals m and b; a call that
\* raised returned nothing; a call that ended did so as every earlier call
\* with these arguments.
C16_OnlyReturned ==
    /\ (frame # None /\ frame.pc = "returned") =>
          frame.ret = <<frame.m, frame.b>>
    /\ (frame # None /\ frame.pc = "raised") => frame.ret = None
    /\ C16_Ended =>
          \A k \in 1..Len(returns) :
              returns[k] = [pc |-> frame.pc, ret |-> frame.ret,
                            exc |-> frame.exc]

\* C16: no step of update_weights_MAE changes the caller's m, b, X or Y,
\* whether the call returns or divides by zero; the new parameters are the
\* returned pair only; a second call with the same arguments ends as the
\* first.
C16_Pure ==
    /\ [](C16_OnlyReturned)
    /\ [][args' = args]_vars

\* The second call returned the pair of the first, which differs from the
\* caller's m and b.
C16_Witness ==
    /\ Len(returns) = 1 /\ returns[1].pc = "returned"
    /\ frame # None /\ frame.pc = "returned"
    /\ frame.ret = returns[1].ret
    /\ frame.ret[1] # args.m /\ frame.ret[2] # args.b


(***************************************************************************)
(* update_weights_MAE on floats.  A float is a fraction times a power of   *)
(* two, q * 2^e with the numerator and the denominator of q odd, or an     *)
(* infinity, or NaN.  The range of the doubles is kept: a result of        *)
(* magnitude 2^1024 or more is an infinity, and a sum with an operand      *)
(* below the last place of the other is the other operand.  Rounding       *)
(* within the range is left out, as above; the arguments tried stay away   *)
(* from the subnormal range.                                               *)
(***************************************************************************)
MaxExponent == 1024     \* doubles: magnitudes from 2^1024 on are infinite
Precision == 53         \* doubles: the bits of a significand

FInf(sgn) == [k |-> "inf", q |-> RatOfInt(sgn), e |-> 0]
FNaN == [k |-> "nan", q |-> Zero, e |-> 0]
FZero == [k |-> "fin", q |-> Zero, e |-> 0]

\* How often 2 divides n, for n # 0.
RECURSIVE TwoAdic(_)
TwoAdic(n) == IF n % 2 # 0 THEN 0 ELSE 1 + TwoAdic(n \div 2)

\* The integer part of log2(n / d), for n, d > 0.
RECURSIVE Log2Floor(_, _)
Log2Floor(n, d) ==
    IF n >= 2 * d THEN 1 + Log2Floor(n, 2 * d)
    ELSE IF n < d THEN Log2Floor(2 * n, d) - 1
    ELSE 0

\* The position of the leading bit of a finite nonzero float.
Leading(x) == Log2Floor(Abs(x.q[1]), x.q[2]) + x.e

\* The float q * 2^e.
FFin(q, e) ==
    IF q[1] = 0 THEN FZero
    ELSE LET a == TwoAdic(q[1])
             b == TwoAdic(q[2])
             x == [k |-> "fin",
                   q |-> <<q[1] \div (2 ^ a), q[2] \div (2 ^ b)>>,
                   e |-> e + a - b]
         IN  IF Leading(x) >= MaxExponent
             THEN FInf(IF q[1] > 0 THEN 1 ELSE -1)
             ELSE x

FOfInt(n) == FFin(RatOfInt(n), 0)
FSign(x) == IF x.q[1] > 0 THEN 1 ELSE IF x.q[1] < 0 THEN -1 ELSE 0
FIsFinite(x) == x.k = "fin"
FIsZero(x) == x.k = "fin" /\ x.q[1] = 0
FNeg(x) == [x EXCEPT !.q = RatNeg(@)]
FAbs(x) == [x EXCEPT !.q = RatAbs(@)]

FAdd(x, y) ==
    IF x.k = "nan" \/ y.k = "nan" THEN FNaN
    ELSE IF x.k = "inf" /\ y.k = "inf"
    THEN IF FSign(x) = FSign(y) THEN x ELSE FNaN
    ELSE IF x.k = "inf" THEN x
    ELSE IF y.k = "inf" THEN y
    ELSE IF FIsZero(x) THEN y
    ELSE IF FIsZero(y) THEN x
    ELSE IF Leading(x) - Leading(y) > Precision + 1 THEN x
    ELSE IF Leading(y) - Leading(x) > Precision + 1 THEN y
    ELSE LET lo == Min(x.e, y.e)
         IN  FFin(RatAdd(RatMul(x.q, RatOfInt(2 ^ (x.e - lo))),
                         RatMul(y.q, RatOfInt(2 ^ (y.e - lo)))), lo)

FSub(x, y) == FAdd(x, FNeg(y))

FMul(x, y) ==
    IF x.k = "nan" \/ y.k = "nan" THEN FNaN
    ELSE IF x.k = "inf" \/ y.k = "inf"
    THEN IF FIsZero(x) \/ FIsZero(y) THEN FNaN
         ELSE FInf(FSign(x) * FSign(y))
    ELSE FFin(RatMul(x.q, y.q), x.e + y.e)

\* x / y for y # 0; the callers raise ZeroDivisionError for y = 0.
FDiv(x, y) ==
    IF x.k = "nan" \/ y.k = "nan" THEN FNaN
    ELSE IF x.k = "inf"
    THEN IF y.k = "inf" THEN FNaN ELSE FInf(FSign(x) * FSign(y))
    ELSE IF y.k = "inf" THEN FZero
    ELSE IF FIsZero(x) THEN FZero
    ELSE FFin(RatDiv(x.q, y.q), x.e - y.e)

\* x <= y; false with a NaN.
FLeq(x, y) ==
    IF x.k = "nan" \/ y.k = "nan" THEN FALSE
    ELSE IF x = y THEN TRUE
    ELSE IF x.k = "inf" THEN FSign(x) < 0
    ELSE IF y.k = "inf" THEN FSign(y) > 0
    ELSE FSign(FSub(y, x)) >= 0


\* The float arguments tried: small ones, and the largest power of two.
Huge == FFin(RatOfInt(1), MaxExponent - 1)
FMs == {FZero, FFin(Rat(1, 2), 0)}
FBs == {FZero, FOfInt(1)}
FXs == {FOfInt(2), FOfInt(-1)}
FYs == {FOfInt(1), FOfInt(3), Huge, FNeg(Huge)}
FRates == {FFin(Rat(1, 2), 0), FFin(Rat(3, 2), 0)}

\* Lines 2-4.
mae_enter_float(a) ==
    [m |-> a.m, b |-> a.b, m_deriv |-> FZero, b_deriv |-> FZero,
     N |-> Len(a.X), i |-> 0, pc |-> "loop", ret |-> None, exc |-> None]

\* Lines 5-11 for the next sample, each operation in its order:
\*   m_deriv += ((-X[i]) * r) / abs(r)       b_deriv += (-r) / abs(r)
mae_iter_float(f, X, Y) ==
    LET x == X[f.i + 1]
        r == FSub(Y[f.i + 1], FAdd(FMul(f.m, x), f.b))
    IN  IF FIsZero(FAbs(r)) THEN Raise(f, "ZeroDivisionError")
        ELSE [f EXCEPT
                !.m_deriv = FAdd(@, FDiv(FMul(FNeg(x), r), FAbs(r))),
                !.b_deriv = FAdd(@, FDiv(FNeg(r), FAbs(r))),
                !.i = @ + 1]

\* Lines 14-17.
mae_update_float(f, learning_rate) ==
    IF f.N = 0 THEN Raise(f, "ZeroDivisionError")
    ELSE LET m2 == FSub(f.m, FMul(FDiv(f.m_deriv, FOfInt(f.N)),
                                  learning_rate))
             b2 == FSub(f.b, FMul(FDiv(f.b_deriv, FOfInt(f.N)),
                                  learning_rate))
         IN  [f EXCEPT !.m = m2, !.b = b2, !.pc = "returned",
                       !.ret = <<m2, b2>>]

InitMAEFloat ==
    /\ \E m \in FMs, b \in FBs, lr \in FRates, n \in 0..MaxN :
       \E X \in [1..n -> FXs], Y \in [1..n -> FYs] :
          args = [m |-> m, b |-> b, X |-> X, Y |-> Y, learning_rate |-> lr]
    /\ frame = None /\ returns = <<>>
    /\ NoFetch /\ NoScrape /\ NoCompute /\ NoMain

MaeEnterFloat ==
    /\ frame = None
    /\ frame' = mae_enter_float(args)
    /\ UNCHANGED <<args, returns, fvars, svars, cvars, avars>>

MaeIterFloat ==
    /\ frame # None /\ frame.pc = "loop" /\ frame.i < frame.N
    /\ frame' = mae_iter_float(frame, args.X, args.Y)
    /\ UNCHANGED <<args, returns, fvars, svars, cvars, avars>>

MaeUpdateFloat ==
    /\ frame # None /\ frame.pc = "loop" /\ frame.i >= frame.N
    /\ frame' = mae_update_float(frame, args.learning_rate)
    /\ UNCHANGED <<args, returns, fvars, svars, cvars, avars>>

NextMAEFloat == MaeEnterFloat \/ MaeIterFloat \/ MaeUpdateFloat

SpecMAEFloat == InitMAEFloat /\ [][NextMAEFloat]_vars

(***************************************************************************)
(* Claims about update_weights_MAE on floats, checked under SpecMAEFloat.  *)
(***************************************************************************)
\* The residual of sample k for the caller's m and b, as line 8 computes it.
ResidualF(k) ==
    FSub(args.Y[k], FAdd(FMul(args.m, args.X[k]), args.b))

\* The call ended, for N >= 1 samples whose residuals are all nonzero.
FloatCase ==
    /\ frame # None /\ frame.pc \in {"returned", "raised"}
    /\ Len(args.X) >= 1
    /\ \A k \in 1..Len(args.X) : ~FIsZero(ResidualF(k))

\* Some product X[i] * r_i is beyond the range of the floats.
Overflows ==
    \E k \in 1..Len(args.X) :
        ~FIsFinite(FMul(FNeg(args.X[k]), ResidualF(k)))

\* The sum over the samples 1..k of -X[i] * sign(r_i), and of -sign(r_i).
RECURSIVE C8_FSumM(_)
C8_FSumM(k) ==
    IF k = 0 THEN FZero
    ELSE FAdd(C8_FSumM(k - 1),
              FMul(FNeg(args.X[k]), FOfInt(FSign(ResidualF(k)))))

RECURSIVE C8_FSumB(_)
C8_FSumB(k) ==
    IF k = 0 THEN FZero
    ELSE FAdd(C8_FSumB(k - 1), FOfInt(-FSign(ResidualF(k))))

C8_FloatFormula ==
    /\ frame.ret[1] =
          FSub(args.m, FDiv(FMul(args.learning_rate, C8_FSumM(Len(args.X))),
                            FOfInt(Len(args.X))))
    /\ frame.ret[2] =
          FSub(args.b, FDiv(FMul(args.learning_rate, C8_FSumB(Len(args.X))),
                            FOfInt(Len(args.X))))

\* C8 on floats: for N >= 1 samples with nonzero residuals the call returns
\*   m' = m - learning_rate * (sum_i -X[i]*sign(r_i)) / N
\*   b' = b - learning_rate * (sum_i -sign(r_i)) / N
C8_StepOnFloats ==
    FloatCase => frame.pc = "returned" /\ C8_FloatFormula

\* The largest |X[i]|.
C18_MaxAbsX ==
    CHOOSE x \in {FAbs(args.X[k]) : k \in 1..Len(args.X)} :
        \A k \in 1..Len(args.X) : FLeq(FAbs(args.X[k]), x)

C18_Bounded ==
    /\ FLeq(FAbs(FSub(frame.ret[2], args.b)), FAbs(args.learning_rate))
    /\ FLeq(FAbs(FSub(frame.ret[1], args.m)),
            FMul(FAbs(args.learning_rate), C18_MaxAbsX))

\* C18: for N >= 1 and nonzero residuals, however large, one step moves b
\* by at most |learning_rate| and m by at most |learning_rate| times the
\* largest |X[i]|.
C18_BoundedStep ==
    FloatCase => frame.pc = "returned" /\ C18_Bounded

\* Where the two fail: they hold of every call in which each product
\* X[i] * r_i is within the range of the floats, and where one is not the
\* slope returned is an infinity or NaN.
OverflowOnly ==
    FloatCase =>
        /\ frame.pc = "returned"
        /\ IF Overflows THEN ~FIsFinite(frame.ret[1])
           ELSE C8_FloatFormula /\ C18_Bounded

\* m = 1/2, b = 1, X = [-1], Y = [2^1023], learning_rate = 1/2: a residual
\* of 2^1023, and m' = 0, b' = 3/2.
InRangeWitness ==
    /\ frame # None /\ frame.pc = "returned"
    /\ args.m = FFin(Rat(1, 2), 0) /\ args.b = FOfInt(1)
    /\ args.X = <<FOfInt(-1)>> /\ args.Y = <<Huge>>
    /\ args.learning_rate = FFin(Rat(1, 2), 0)
    /\ ~Overflows
    /\ frame.ret = <<FZero, FFin(Rat(3, 2), 0)>>

=============================================================================
